---- MODULE Spec2Model ----
(***************************************************************************)
(* Access-control core of the content store service: capability tokens     *)
(* (file-security.js), local credential verification (jwt-auth.js), the    *)
(* access handler (handlers/access.js), the visibility toggle              *)
(* (handlers/public.js) and the upload handler (handlers/upload.js), over  *)
(* an R2-like bucket with per-object customMetadata.                       *)
(*                                                                         *)
(* JavaScript strings are sequences of character codes; undefined and null *)
(* are the one-element sequences Undefined and Null, so that every value   *)
(* the handlers compare has the same shape.                                *)
(***************************************************************************)
EXTENDS Integers, Sequences, FiniteSets, TLC

(***************************************************************************)
(* Bounds of the model.                                                    *)
(***************************************************************************)
\* The clock (Date.now()/1000, in seconds) runs from 0 to MaxTime.
MaxTime == 2
\* expiresInMinutes * 60 of generateSignedUrl, scaled down to clock ticks.
TtlSeconds == 1
\* The largest exp claim a credential carries.
MaxCredExp == 1
\* The number of objects one call of the bucket's list returns at most (the
\* platform's page of 1000, scaled down).
PageSize == 2
\* The number of uploads the session cache keeps for a user (20 in the
\* code, scaled down).
SessionCap == 2
\* The number of addUploadToSession calls followed in the session cache.
MaxAdds == 3

(***************************************************************************)
(* JavaScript values.                                                      *)
(***************************************************************************)
Undefined == << -1 >>
Null == << -2 >>

\* !x for the values the handlers test: undefined, null and "" are falsy.
Falsy(x) == x \in {Undefined, Null, << >>}

\* `${x}`: undefined and null print as words, a string is itself.
TemplateString(x) ==
    IF x = Undefined THEN << 117, 110, 100, 101, 102, 105, 110, 101, 100 >>
    ELSE IF x = Null THEN << 110, 117, 108, 108 >>
    ELSE x

\* `${n}` of a non-negative integer: its decimal digits.
RECURSIVE NumberToString(_)
NumberToString(n) ==
    IF n < 10 THEN << 48 + n >>
    ELSE NumberToString(n \div 10) \o << 48 + (n % 10) >>

\* parseInt(s) on strings without leading blanks or sign: the value of the
\* leading decimal digits as << n >>, or << >> for NaN when there is none.
RECURSIVE ParseIntFrom(_, _, _, _)
ParseIntFrom(s, i, acc, any) ==
    IF i > Len(s) \/ s[i] \notin 48..57
    THEN IF any THEN << acc >> ELSE << >>
    ELSE ParseIntFrom(s, i + 1, acc * 10 + (s[i] - 48), TRUE)

ParseInt(s) == ParseIntFrom(s, 1, 0, FALSE)

\* a < b where a is a parseInt result: every comparison with NaN is false.
NumLess(a, b) == a # << >> /\ a[1] < b

\* s.startsWith(p)
StartsWith(s, p) == Len(p) <= Len(s) /\ SubSeq(s, 1, Len(p)) = p

(***************************************************************************)
(* btoa: base64 of a string of codes below 256.  The output alphabet is    *)
(* written as the indices 0..63 ('+' is 62, '/' is 63) and 64 for '='.     *)
(***************************************************************************)
RECURSIVE Btoa(_)
Btoa(s) ==
    IF Len(s) = 0 THEN << >>
    ELSE IF Len(s) = 1
    THEN << s[1] \div 4, (s[1] % 4) * 16, 64, 64 >>
    ELSE IF Len(s) = 2
    THEN << s[1] \div 4, (s[1] % 4) * 16 + (s[2] \div 16), (s[2] % 16) * 4, 64 >>
    ELSE << s[1] \div 4,
            (s[1] % 4) * 16 + (s[2] \div 16),
            (s[2] % 16) * 4 + (s[3] \div 64),
            s[3] % 64 >>
         \o Btoa(SubSeq(s, 4, Len(s)))

\* .replace(/[+/=]/g, '')
StripB64(s) == SelectSeq(s, LAMBDA c : c \notin {62, 63, 64})

(***************************************************************************)
(* The worker's environment bindings.                                      *)
(***************************************************************************)
Env ==
    [ AUTH_JWT_SECRET |-> << 115 >>,
      JWT_SECRET |-> << 107 >>,
      CONTENT_BUCKET |-> TRUE ]

(***************************************************************************)
(* Request URLs.  A pathname is the sequence of its segments,              *)
(* "/access/F" is << AccessSeg, F >>; the query parameters are fields of   *)
(* the request, already decoded as url.searchParams.get returns them       *)
(* (Null when the parameter is absent).                                    *)
(***************************************************************************)
AccessSeg == << 97, 99, 99, 101, 115, 115 >>

RECURSIVE JoinSlash(_)
JoinSlash(segs) ==
    IF Len(segs) = 0 THEN << >>
    ELSE IF Len(segs) = 1 THEN segs[1]
    ELSE segs[1] \o << 47 >> \o JoinSlash(Tail(segs))

\* url.pathname.split('/access/')[1] for a pathname that starts with
\* "/access/": the text up to the next "/access/", if there is one.
RouteFileId(path) ==
    LET n == Len(path)
        cut == { j \in 3..(n - 1) : path[j] = AccessSeg }
        last == IF cut = {} THEN n
                ELSE (CHOOSE j \in cut : \A k \in cut : j <= k) - 1
    IN  JoinSlash(SubSeq(path, 2, last))

\* pathParts[pathParts.length - 1] of url.pathname.split('/')
LastPathPart(path) == path[Len(path)]

(***************************************************************************)
(* Capability tokens (signed URLs).                                        *)
(***************************************************************************)
\* btoa(payload + env.AUTH_JWT_SECRET).replace(/[+/=]/g, '')
SignPayload(payload, env) ==
    StripB64(Btoa(payload \o TemplateString(env.AUTH_JWT_SECRET)))

\* `${fileId}:${userId}:${expires}`
TokenPayload(fileId, userId, expires) ==
    TemplateString(fileId) \o << 58 >> \o TemplateString(userId)
        \o << 58 >> \o TemplateString(expires)

\* The signed URL issued for (fileId, userId) at time now, as the pathname's
\* file id and the three query parameters.
generateSignedUrl(fileId, userId, env, now, ttl) ==
    LET expiresAt == NumberToString(now + ttl)
    IN  [ fileId |-> fileId,
          signature |-> SignPayload(TokenPayload(fileId, userId, expiresAt), env),
          expires |-> expiresAt,
          user |-> TemplateString(userId) ]

SignedUrlInvalid(error) ==
    [ valid |-> FALSE, error |-> error, userId |-> Undefined,
      fileId |-> Undefined, expiresAt |-> << >> ]

\* verifySignedUrl recomputing the signature with env.JWT_SECRET, the secret
\* of the credentials, where the code uses env.AUTH_JWT_SECRET.
verifySignedUrl_OtherSecret(path, signature, expires, urlUserId, env, now) ==
    IF Falsy(signature) \/ Falsy(expires) \/ Falsy(urlUserId)
    THEN SignedUrlInvalid("Missing required parameters")
    ELSE LET fileId == LastPathPart(path)
             otherEnv == [ env EXCEPT !.AUTH_JWT_SECRET = env.JWT_SECRET ]
         IN  IF NumLess(ParseInt(expires), now)
             THEN SignedUrlInvalid("URL has expired")
             ELSE IF signature # SignPayload(TokenPayload(fileId, urlUserId, expires), otherEnv)
             THEN SignedUrlInvalid("Invalid signature")
             ELSE [ valid |-> TRUE, error |-> "", userId |-> urlUserId,
                    fileId |-> fileId, expiresAt |-> ParseInt(expires) ]

\* verifySignedUrl with the expiry comparison reversed.
verifySignedUrl_ReversedExpiry(path, signature, expires, urlUserId, env, now) ==
    IF Falsy(signature) \/ Falsy(expires) \/ Falsy(urlUserId)
    THEN SignedUrlInvalid("Missing required parameters")
    ELSE LET fileId == LastPathPart(path)
         IN  IF ParseInt(expires) # << >> /\ now < ParseInt(expires)[1]
             THEN SignedUrlInvalid("URL has expired")
             ELSE IF signature # SignPayload(TokenPayload(fileId, urlUserId, expires), env)
             THEN SignedUrlInvalid("Invalid signature")
             ELSE [ valid |-> TRUE, error |-> "", userId |-> urlUserId,
                    fileId |-> fileId, expiresAt |-> ParseInt(expires) ]

verifySignedUrl(path, signature, expires, urlUserId, env, now) ==
    IF Falsy(signature) \/ Falsy(expires) \/ Falsy(urlUserId)
    THEN SignedUrlInvalid("Missing required parameters")
    ELSE LET fileId == LastPathPart(path)
         IN  IF NumLess(ParseInt(expires), now)
             THEN SignedUrlInvalid("URL has expired")
             ELSE IF signature # SignPayload(TokenPayload(fileId, urlUserId, expires), env)
             THEN SignedUrlInvalid("Invalid signature")
             ELSE [ valid |-> TRUE, error |-> "", userId |-> urlUserId,
                    fileId |-> fileId, expiresAt |-> ParseInt(expires) ]

(***************************************************************************)
(* Credentials.  A bearer token is abstracted to what verifyJWT reads from *)
(* it: whether it is there, how many dot-separated parts it has, the key   *)
(* its HMAC-SHA256 signature was made with, and the sub and exp claims of  *)
(* its payload (exp is << >> when absent, << n >> otherwise).              *)
(***************************************************************************)
NoCredential ==
    [ present |-> FALSE, parts |-> 0, key |-> << >>, sub |-> Undefined, exp |-> << >> ]

Credential(key, sub, exp) ==
    [ present |-> TRUE, parts |-> 3, key |-> key, sub |-> sub, exp |-> exp ]

createAuthError(code) ==
    [ success |-> FALSE, code |-> code, user |-> [ id |-> Undefined ] ]

\* verifyJWT returns the payload only for a three-part token whose signature
\* verifies under the secret; it throws when the secret is not configured.
verifyJWT(cred, secret) ==
    IF Falsy(secret) THEN "throw"
    ELSE IF cred.parts # 3 \/ cred.key # secret THEN "null"
    ELSE "payload"

authenticateJWT(cred, env, now) ==
    IF ~cred.present THEN createAuthError("AUTH_REQUIRED")
    ELSE LET payload == verifyJWT(cred, env.JWT_SECRET)
         IN  IF payload = "throw" THEN createAuthError("AUTH_SYSTEM_ERROR")
             ELSE IF payload = "null" THEN createAuthError("INVALID_TOKEN")
             ELSE IF cred.exp # << >> /\ cred.exp[1] # 0 /\ cred.exp[1] < now
             THEN createAuthError("TOKEN_EXPIRED")
             ELSE [ success |-> TRUE, code |-> "", user |-> [ id |-> cred.sub ] ]

(***************************************************************************)
(* The bucket (env.CONTENT_BUCKET): a function from the keys of the stored *)
(* objects to the objects.  A key is the sequence of its "/"-separated     *)
(* parts, uploads/<year>/<month>/<fileId>.<ext>.  Of an object only the    *)
(* customMetadata is kept; its timestamps (uploadedAt, lastModified), which *)
(* no handler reads, are left out.                                         *)
(***************************************************************************)
UploadsPrefix == << << 117, 112, 108, 111, 97, 100, 115 >>, << 50, 48, 50, 53 >>, << 56 >> >>

ObjectKey(fileName) == UploadsPrefix \o << fileName >>

\* object.key.split('/').pop()
KeyFileName(key) == key[Len(key)]

RECURSIVE LexLeq(_, _)
LexLeq(a, b) ==
    IF Len(a) = 0 THEN TRUE
    ELSE IF Len(b) = 0 THEN FALSE
    ELSE IF a[1] # b[1] THEN a[1] < b[1]
    ELSE LexLeq(Tail(a), Tail(b))

\* put(key, body, {customMetadata}): creates or replaces the object at key.
R2Put(b, key, customMetadata) ==
    [ k \in (DOMAIN b) \cup {key} |->
        IF k = key THEN [ customMetadata |-> customMetadata ] ELSE b[k] ]

\* list({ prefix: 'uploads/' }).objects: one page, the first PageSize keys
\* in key order.  The code never asks for the page after it.
R2List(b) ==
    { k \in DOMAIN b :
        Cardinality({ k2 \in DOMAIN b :
                        k2 # k /\ LexLeq(JoinSlash(k2), JoinSlash(k)) }) < PageSize }

OwnershipMissing(error) ==
    [ exists |-> FALSE, owned |-> FALSE, owner |-> Undefined,
      fileKey |-> << >>, error |-> error ]

\* The listing is one page in key order and the loop stops at the first
\* object of it whose file name starts with fileId + '.'.  up = FALSE is a bucket whose list or
\* get call throws.
checkFileOwnership(fileId, userId, env, b, up) ==
    IF ~env.CONTENT_BUCKET THEN OwnershipMissing("Storage not configured")
    ELSE IF ~up THEN OwnershipMissing("storage error")
    ELSE LET matches == { k \in R2List(b) :
                            StartsWith(KeyFileName(k), TemplateString(fileId) \o << 46 >>) }
         IN  IF matches = {} THEN OwnershipMissing("File not found")
             ELSE LET foundKey == CHOOSE k \in matches :
                                    \A k2 \in matches : LexLeq(JoinSlash(k), JoinSlash(k2))
                      uploadedBy == b[foundKey].customMetadata.uploadedBy
                  IN  [ exists |-> TRUE,
                        owned |-> uploadedBy = userId,
                        owner |-> uploadedBy,
                        fileKey |-> foundKey,
                        error |-> "" ]

(***************************************************************************)
(* GET /access/{fileId}                                                    *)
(***************************************************************************)
Response(status, code, reason, served) ==
    [ status |-> status, code |-> code, reason |-> reason, served |-> served ]

NoResponse == Response(0, "", "", << >>)

AnonymousUser == << 97, 110, 111, 110, 121, 109, 111, 117, 115 >>

\* accessDecision without its branch for anonymous requests: every request
\* it does not grant is answered 403.
accessDecision_NoAuthRequired(isPublicFile, isSignedRequest, isOwner, isAnonymousRequest, fileKey) ==
    IF isPublicFile
    THEN Response(200, "", "public file", fileKey)
    ELSE IF isSignedRequest
    THEN Response(200, "", "valid signed URL", fileKey)
    ELSE IF isOwner
    THEN Response(200, "", "file owner", fileKey)
    ELSE Response(403, "ACCESS_DENIED", "not file owner", << >>)

\* The branch that decides between streaming the object and a denial.
accessDecision(isPublicFile, isSignedRequest, isOwner, isAnonymousRequest, fileKey) ==
    IF isPublicFile
    THEN Response(200, "", "public file", fileKey)
    ELSE IF isSignedRequest
    THEN Response(200, "", "valid signed URL", fileKey)
    ELSE IF isOwner
    THEN Response(200, "", "file owner", fileKey)
    ELSE IF isAnonymousRequest
    THEN Response(401, "AUTH_REQUIRED", "Authentication required for private files", << >>)
    ELSE Response(403, "ACCESS_DENIED", "not file owner", << >>)

\* handleFileAccess without the return that follows a failed verification
\* of the token parameters.
handleFileAccess_SignatureNotEnforced(req, env, b, now, up) ==
    LET fileId == RouteFileId(req.path)
        isSignedRequest == ~Falsy(req.signature) /\ ~Falsy(req.expires)
        signatureVerification ==
            verifySignedUrl(req.path, req.signature, req.expires, req.user, env, now)
        jwt == authenticateJWT(req.cred, env, now)
        isAnonymousRequest == ~isSignedRequest /\ ~jwt.success
        userId == IF isSignedRequest THEN signatureVerification.userId ELSE jwt.user.id
        ownershipCheck == checkFileOwnership(fileId, AnonymousUser, env, b, up)
    IN  IF Falsy(fileId)
        THEN Response(400, "", "File ID is required", << >>)
        ELSE IF ~ownershipCheck.exists
        THEN Response(404, "", ownershipCheck.error, << >>)
        ELSE accessDecision(
                b[ownershipCheck.fileKey].customMetadata.isPublic = "true",
                isSignedRequest,
                ~isAnonymousRequest /\ ownershipCheck.owner = userId,
                isAnonymousRequest,
                ownershipCheck.fileKey)

handleFileAccess(req, env, b, now, up) ==
    LET fileId == RouteFileId(req.path)
        isSignedRequest == ~Falsy(req.signature) /\ ~Falsy(req.expires)
        signatureVerification ==
            verifySignedUrl(req.path, req.signature, req.expires, req.user, env, now)
        jwt == authenticateJWT(req.cred, env, now)
        isAnonymousRequest == ~isSignedRequest /\ ~jwt.success
        userId == IF isSignedRequest THEN signatureVerification.userId ELSE jwt.user.id
        ownershipCheck == checkFileOwnership(fileId, AnonymousUser, env, b, up)
    IN  IF isSignedRequest /\ ~signatureVerification.valid
        THEN Response(403, "ACCESS_DENIED", signatureVerification.error, << >>)
        ELSE IF Falsy(fileId)
        THEN Response(400, "", "File ID is required", << >>)
        ELSE IF ~ownershipCheck.exists
        THEN Response(404, "", ownershipCheck.error, << >>)
        ELSE accessDecision(
                b[ownershipCheck.fileKey].customMetadata.isPublic = "true",
                isSignedRequest,
                ~isAnonymousRequest /\ ownershipCheck.owner = userId,
                isAnonymousRequest,
                ownershipCheck.fileKey)

(***************************************************************************)
(* PUT /access/{fileId}/public.  The handler reads the object, then awaits *)
(* the put that rewrites it: togglePublicCheck is the part up to and       *)
(* including the read, togglePublicPut the write.  A body is what          *)
(* request.json() makes of it (json) and the isPublic member of the result *)
(* (its typeof and, for a boolean, its value).                             *)
(***************************************************************************)
JsonBody(json, type, val) == [ json |-> json, type |-> type, val |-> val ]

NoMetadata ==
    [ originalName |-> << >>, uploadedBy |-> Undefined,
      contentType |-> "", isPublic |-> "" ]

ToggleOutcome(status, fileKey, customMetadata) ==
    [ status |-> status, fileKey |-> fileKey, customMetadata |-> customMetadata ]

\* togglePublicCheck without the return for a requester that does not own
\* the object.
togglePublicCheck_NoOwnerCheck(req, env, b, now, up) ==
    LET authResult == authenticateJWT(req.cred, env, now)
        ownershipCheck == checkFileOwnership(req.fileId, authResult.user.id, env, b, up)
    IN  IF ~authResult.success THEN ToggleOutcome(401, << >>, NoMetadata)
        ELSE IF req.body.json # "object" THEN ToggleOutcome(500, << >>, NoMetadata)
        ELSE IF req.body.type # "boolean" THEN ToggleOutcome(400, << >>, NoMetadata)
        ELSE IF ~ownershipCheck.exists THEN ToggleOutcome(404, << >>, NoMetadata)
        ELSE ToggleOutcome(0, ownershipCheck.fileKey,
                           b[ownershipCheck.fileKey].customMetadata)

\* status 0: the checks passed and the put is still to come.
togglePublicCheck(req, env, b, now, up) ==
    LET authResult == authenticateJWT(req.cred, env, now)
        ownershipCheck == checkFileOwnership(req.fileId, authResult.user.id, env, b, up)
    IN  IF ~authResult.success THEN ToggleOutcome(401, << >>, NoMetadata)
        ELSE IF req.body.json # "object" THEN ToggleOutcome(500, << >>, NoMetadata)
        ELSE IF req.body.type # "boolean" THEN ToggleOutcome(400, << >>, NoMetadata)
        ELSE IF ~ownershipCheck.exists THEN ToggleOutcome(404, << >>, NoMetadata)
        ELSE IF ~ownershipCheck.owned THEN ToggleOutcome(403, << >>, NoMetadata)
        ELSE ToggleOutcome(0, ownershipCheck.fileKey,
                           b[ownershipCheck.fileKey].customMetadata)

\* { isPublic: isPublic.toString(), ...existingMetadata }: the spread last,
\* so that the isPublic read from the object wins.
updatedMetadata_SpreadLast(existingMetadata, isPublic) ==
    IF existingMetadata.isPublic = ""
    THEN [ existingMetadata EXCEPT !.isPublic = IF isPublic THEN "true" ELSE "false" ]
    ELSE existingMetadata

\* { isPublic: isPublic.toString() }: the metadata read from the object is
\* not carried over.
updatedMetadata_NoSpread(existingMetadata, isPublic) ==
    [ originalName |-> << >>, uploadedBy |-> << -1 >>, contentType |-> "",
      isPublic |-> IF isPublic THEN "true" ELSE "false" ]

\* { ...existingMetadata, isPublic: isPublic.toString() }
updatedMetadata(existingMetadata, isPublic) ==
    [ existingMetadata EXCEPT !.isPublic = IF isPublic THEN "true" ELSE "false" ]

\* The put replaces the object with the metadata read earlier, updated; a
\* put that throws (up = FALSE) leaves the bucket alone and answers 500.
togglePublicPut(b, fileKey, existingMetadata, isPublic, up) ==
    IF up THEN R2Put(b, fileKey, updatedMetadata(existingMetadata, isPublic)) ELSE b

\* The handler answering 200 whether or not its put threw.
togglePublicStatus_AlwaysOk(up) == 200

togglePublicStatus(up) == IF up THEN 200 ELSE 500

(***************************************************************************)
(* POST /upload and POST /generate-signed-url                              *)
(***************************************************************************)
\* file.name.split('.').pop()
RECURSIVE SplitPop(_, _)
SplitPop(s, sep) ==
    IF \E i \in 1..Len(s) : s[i] = sep
    THEN SplitPop(SubSeq(s, (CHOOSE i \in 1..Len(s) : s[i] = sep) + 1, Len(s)), sep)
    ELSE s

\* The customMetadata of an upload that stores the object as public.
uploadMetadata_Public(fileName, userId) ==
    [ originalName |-> fileName, uploadedBy |-> userId,
      contentType |-> "text/plain", isPublic |-> "true" ]

uploadMetadata(fileName, userId) ==
    [ originalName |-> fileName, uploadedBy |-> userId,
      contentType |-> "text/plain", isPublic |-> "false" ]

\* uploads/<year>/<month>/<fileId>.<fileExtension>
uploadFilePath(fileId, fileName) ==
    LET ext == SplitPop(fileName, 46)
    IN  ObjectKey(fileId \o << 46 >> \o (IF ext = << >> THEN << 98, 105, 110 >> ELSE ext))

(***************************************************************************)
(* The session cache (sessionUploads, a Map from user id to the list of    *)
(* that user's recent uploads, newest first) of one worker instance.  Of   *)
(* an entry only the id is kept.                                           *)
(***************************************************************************)
\* addUploadToSession without the cut to the cap.
addUploadToSession_Unbounded(cache, userId, fileMeta) ==
    IF Falsy(userId) THEN cache
    ELSE LET old == IF userId \in DOMAIN cache THEN cache[userId] ELSE << >>
         IN  [ u \in DOMAIN cache \cup { userId } |->
                 IF u = userId THEN << fileMeta >> \o old ELSE cache[u] ]

addUploadToSession(cache, userId, fileMeta) ==
    IF Falsy(userId) THEN cache
    ELSE LET old == IF userId \in DOMAIN cache THEN cache[userId] ELSE << >>
             unshifted == << fileMeta >> \o old
             kept == IF Len(unshifted) > SessionCap
                     THEN SubSeq(unshifted, 1, SessionCap)
                     ELSE unshifted
         IN  [ u \in DOMAIN cache \cup { userId } |-> IF u = userId THEN kept ELSE cache[u] ]

\* sessionUploads.get(userId) || []
getSessionUploads(cache, userId) ==
    IF userId \in DOMAIN cache THEN cache[userId] ELSE << >>

\* sessionUploads.delete(userId)
clearSessionUploads(cache, userId) ==
    [ u \in DOMAIN cache \ { userId } |-> cache[u] ]

(***************************************************************************)
(* handleUpload.  The data service answers the metadata POST with a        *)
(* thrown fetch, a response that is not ok, or an ok response whose body   *)
(* is a record, with or without an id.                                     *)
(***************************************************************************)
DataServiceReply(thrown, ok, hasId) == [ thrown |-> thrown, ok |-> ok, hasId |-> hasId ]

DataServiceStored == DataServiceReply(FALSE, TRUE, TRUE)

\* persistedMetadata: the body of an ok response, { error: err.message }
\* after anything else.
persistMetadata(metadata, reply) ==
    IF reply.thrown \/ ~reply.ok
    THEN [ error |-> TRUE, id |-> Undefined ]
    ELSE [ error |-> FALSE, id |-> IF reply.hasId THEN metadata.id ELSE Undefined ]

UploadResponse(status, success, fileId, metadata) ==
    [ status |-> status, success |-> success, file |-> [ id |-> fileId ], metadata |-> metadata ]

NoPersistedMetadata == [ error |-> FALSE, id |-> Undefined ]

\* { id: fileId, ..., ...persistedMetadata }: a key of persistedMetadata
\* replaces the one before it.
sessionEntry(fileId, persistedMetadata) ==
    [ id |-> IF persistedMetadata.id # Undefined THEN persistedMetadata.id ELSE fileId ]

handleUpload(cred, hasFile, fileName, fileId, reply, env, now, b, up, tok, cache) ==
    LET authResult == authenticateJWT(cred, env, now)
        unchanged(status) ==
            [ bucket |-> b, token |-> tok, sessionUploads |-> cache,
              response |-> UploadResponse(status, FALSE, Undefined, NoPersistedMetadata) ]
    IN  IF ~authResult.success THEN unchanged(401)
        ELSE IF ~hasFile THEN unchanged(400)
        ELSE IF ~env.CONTENT_BUCKET \/ ~up THEN unchanged(500)
        ELSE LET filePath == uploadFilePath(fileId, fileName)
                 persistedMetadata == persistMetadata([ id |-> fileId ], reply)
             IN  [ bucket |-> R2Put(b, filePath, uploadMetadata(fileName, authResult.user.id)),
                   token |-> generateSignedUrl(fileId, authResult.user.id, env, now, TtlSeconds),
                   sessionUploads |-> addUploadToSession(cache, authResult.user.id,
                                                         sessionEntry(fileId, persistedMetadata)),
                   response |-> UploadResponse(200, TRUE, fileId, persistedMetadata) ]

\* handleUploadSession: 401 without a verified credential, otherwise the
\* user's list in the cache.
handleUploadSession(cred, env, now, cache) ==
    LET authResult == authenticateJWT(cred, env, now)
    IN  IF ~authResult.success
        THEN [ status |-> 401, success |-> FALSE, uploads |-> << >> ]
        ELSE [ status |-> 200, success |-> TRUE,
               uploads |-> getSessionUploads(cache, authResult.user.id) ]

\* The route without its ownership check: a signed URL for every
\* authenticated requester that names a file id.
generateSignedUrlRoute_NoOwnerCheck(cred, fileId, env, b, now, up, tok) ==
    LET authResult == authenticateJWT(cred, env, now)
    IN  IF ~authResult.success THEN [ status |-> 401, token |-> tok ]
        ELSE IF Falsy(fileId) THEN [ status |-> 400, token |-> tok ]
        ELSE [ status |-> 200,
               token |-> generateSignedUrl(fileId, authResult.user.id, env, now, TtlSeconds) ]

\* POST /generate-signed-url { fileId }: 401 without a verified credential,
\* 400 without a fileId, 403 unless the requester owns the file, otherwise
\* a signed URL.  token is the signed URL issued last.
generateSignedUrlRoute(cred, fileId, env, b, now, up, tok) ==
    LET authResult == authenticateJWT(cred, env, now)
        ownership == checkFileOwnership(fileId, authResult.user.id, env, b, up)
    IN  IF ~authResult.success THEN [ status |-> 401, token |-> tok ]
        ELSE IF Falsy(fileId) THEN [ status |-> 400, token |-> tok ]
        ELSE IF ~ownership.exists \/ ~ownership.owned THEN [ status |-> 403, token |-> tok ]
        ELSE [ status |-> 200,
               token |-> generateSignedUrl(fileId, authResult.user.id, env, now, TtlSeconds) ]

(***************************************************************************)
(* Inputs of the model.                                                    *)
(***************************************************************************)
\* crypto.randomUUID() draws from IdPool; a file id is a one-character string.
IdPool == { << 70 >>, << 71 >> }

\* Subject ids of the principals, and the values a request's user parameter
\* takes besides them.
Users == { << 117 >>, << 62 >> }
UserParams == Users \cup { << 63 >> }

FileNames == { << 97, 46, 116 >> }

OtherKey == << 120 >>

MalformedCredential ==
    [ present |-> TRUE, parts |-> 2, key |-> Env.JWT_SECRET, sub |-> Undefined, exp |-> << >> ]

ValidlySigned ==
    { Credential(Env.JWT_SECRET, sub, exp) :
        sub \in Users \cup {Undefined},
        exp \in { << >> } \cup { << n >> : n \in 1..MaxCredExp } }

Credentials ==
    { NoCredential, MalformedCredential, Credential(OtherKey, << 117 >>, << >>) }
        \cup ValidlySigned

\* Uploads are made with credentials that name a subject.
UploadCredentials == { c \in Credentials : c.sub # Undefined }

Bodies ==
    { JsonBody("invalid", "undefined", FALSE),
      JsonBody("object", "undefined", FALSE),
      JsonBody("object", "string", FALSE),
      JsonBody("object", "boolean", TRUE),
      JsonBody("object", "boolean", FALSE) }

Paths ==
    { << AccessSeg, f >> : f \in IdPool \cup { << >> } }
        \cup { << AccessSeg, f, AccessSeg, g >> : f, g \in IdPool }

GarbageSignature == << 0 >>

ExpiresParams == { NumberToString(t) : t \in 1..(MaxTime + TtlSeconds) }

NoToken == [ fileId |-> << >>, signature |-> Null, expires |-> Null, user |-> Null ]

AccessRequest(path, signature, expires, user, cred) ==
    [ path |-> path, signature |-> signature, expires |-> expires,
      user |-> user, cred |-> cred ]

NoRequest == AccessRequest(<< >>, Null, Null, Null, NoCredential)

\* The requests made of GET /access/...: without the signature or without
\* the expires parameter the handler reads the credential and none of the
\* token parameters, and those requests carry every credential; with both it
\* reads the token parameters and never the credential, and those requests
\* carry every combination of token parameters and no credential or a valid
\* one.  tok is the signed URL the client holds.
AccessRequests(tok) ==
    { AccessRequest(p, q[1], q[2], q[3], c) :
        p \in Paths,
        q \in { << Null, Null, Null >>,
                << tok.signature, Null, tok.user >>,
                << Null, tok.expires, tok.user >> },
        c \in Credentials }
    \cup
    { AccessRequest(p, sg, e, u, c) :
        p \in Paths,
        sg \in { GarbageSignature, tok.signature } \ { Null },
        e \in ExpiresParams,
        u \in UserParams \cup { Null },
        c \in { NoCredential } \cup { Credential(Env.JWT_SECRET, sub, << >>) : sub \in Users } }

(***************************************************************************)
(* State.                                                                  *)
(***************************************************************************)
VARIABLES
    now,          \* Math.floor(Date.now() / 1000)
    bucket,       \* env.CONTENT_BUCKET
    storageUp,    \* FALSE while the bucket's calls throw
    token,        \* the signed URL issued last
    accessReq,    \* the GET /access request answered in this step
    accessResp,   \* and the response to it
    toggles,      \* the PUT /access/{fileId}/public requests in flight
    call,         \* the function applied in this step, its arguments and result
    sessionUploads \* the session cache of the worker instance

vars == << now, bucket, storageUp, token, accessReq, accessResp, toggles, call, sessionUploads >>

NoCall == [ fn |-> "" ]

Slots == { 1, 2 }

ToggleRequest(cred, fileId, body) == [ cred |-> cred, fileId |-> fileId, body |-> body ]

\* raced: the object was rewritten between this request's read and its put.
ToggleState(pc, req, status, fileKey, customMetadata, raced) ==
    [ pc |-> pc, req |-> req, status |-> status, fileKey |-> fileKey,
      customMetadata |-> customMetadata, raced |-> raced ]

IdleToggle ==
    ToggleState("idle",
                ToggleRequest(NoCredential, << >>, JsonBody("invalid", "undefined", FALSE)),
                0, << >>, NoMetadata, FALSE)

Init ==
    /\ now = 0
    /\ bucket = << >>
    /\ storageUp = TRUE
    /\ token = NoToken
    /\ accessReq = NoRequest
    /\ accessResp = NoResponse
    /\ toggles = [ s \in Slots |-> IdleToggle ]
    /\ call = NoCall
    /\ sessionUploads = << >>

\* A response is on its way out: the step after a handler's last one only
\* hands the response over.
Quiet == accessReq = NoRequest /\ \A s \in Slots : toggles[s].pc # "done"

Tick ==
    /\ Quiet
    /\ now < MaxTime
    /\ now' = now + 1
    /\ UNCHANGED << bucket, storageUp, token, accessReq, accessResp, toggles, call, sessionUploads >>

StorageFlip ==
    /\ Quiet
    /\ storageUp' = ~storageUp
    /\ UNCHANGED << now, bucket, token, accessReq, accessResp, toggles, call, sessionUploads >>

\* handleUpload: 401 without a verified credential, 500 when the put throws,
\* otherwise the object is stored private under a fresh id and the response
\* carries a signed URL for it.
\* The object, the signed URL and the session cache do not depend on what
\* the data service answers, so one answer stands for all of them here.
Upload(cred, fileName, fileId) ==
    LET out == handleUpload(cred, TRUE, fileName, fileId, DataServiceStored, Env, now,
                            bucket, storageUp, token, sessionUploads)
    IN  /\ Quiet
        /\ \A k \in DOMAIN bucket : ~StartsWith(KeyFileName(k), fileId \o << 46 >>)
        /\ bucket' = out.bucket
        /\ token' = out.token
        /\ sessionUploads' = out.sessionUploads
        /\ UNCHANGED << now, storageUp, accessReq, accessResp, toggles, call >>

\* POST /generate-signed-url as one step.
GenerateSignedUrlRoute(cred, fileId) ==
    LET out == generateSignedUrlRoute(cred, fileId, Env, bucket, now, storageUp, token)
    IN  /\ Quiet
        /\ token' = out.token
        /\ UNCHANGED << now, bucket, storageUp, accessReq, accessResp, toggles, call, sessionUploads >>

\* handleTogglePublic run from its first line to its last with no other
\* request in between.
TogglePublic(req) ==
    LET out == togglePublicCheck(req, Env, bucket, now, storageUp)
    IN  /\ Quiet
        /\ bucket' = IF out.status = 0
                     THEN togglePublicPut(bucket, out.fileKey, out.customMetadata,
                                          req.body.val, storageUp)
                     ELSE bucket
        /\ UNCHANGED << now, storageUp, token, accessReq, accessResp, toggles, call, sessionUploads >>

\* FileAccess with a handler that notes the download on the object it
\* served: a put of the object with its originalName cleared.
FileAccess_RecordsAccess(req) ==
    LET resp == handleFileAccess(req, Env, bucket, now, storageUp)
    IN  /\ Quiet
        /\ accessReq' = req
        /\ accessResp' = resp
        /\ bucket' = IF resp.status = 200
                     THEN R2Put(bucket, resp.served,
                                [ bucket[resp.served].customMetadata
                                    EXCEPT !.originalName = << >> ])
                     ELSE bucket
        /\ UNCHANGED << now, storageUp, token, toggles, call, sessionUploads >>

\* handleFileAccess reads the bucket and writes nothing.
FileAccess(req) ==
    /\ Quiet
    /\ accessReq' = req
    /\ accessResp' = handleFileAccess(req, Env, bucket, now, storageUp)
    /\ UNCHANGED << now, bucket, storageUp, token, toggles, call, sessionUploads >>

AccessRespond ==
    /\ accessReq # NoRequest
    /\ accessReq' = NoRequest
    /\ accessResp' = NoResponse
    /\ UNCHANGED << now, bucket, storageUp, token, toggles, call, sessionUploads >>

ToggleRequests ==
    { ToggleRequest(c, f, b) : c \in Credentials, f \in IdPool, b \in Bodies }

Next ==
    \/ Tick
    \/ StorageFlip
    \/ Quiet /\ \E c \in UploadCredentials, n \in FileNames, f \in IdPool : Upload(c, n, f)
    \/ Quiet /\ \E c \in Credentials, f \in IdPool : GenerateSignedUrlRoute(c, f)
    \/ Quiet /\ \E r \in ToggleRequests : TogglePublic(r)
    \/ Quiet /\ \E r \in AccessRequests(token) : FileAccess(r)
    \/ AccessRespond

Spec == Init /\ [][Next]_vars

(***************************************************************************)
(* PUT /access/{fileId}/public with requests in flight together.  Each of  *)
(* the two slots runs handleTogglePublic: TogglePublicStart is the handler *)
(* up to the await of the put, TogglePublicFinish the put and the          *)
(* response.  The bucket starts with what uploads and earlier toggles      *)
(* leave in it: each file id without an object or with one, private or     *)
(* public, the first id's uploaded by one user and the second's by the     *)
(* other.                                                                  *)
(***************************************************************************)
UploaderOf(fileId) == IF fileId = << 70 >> THEN << 117 >> ELSE << 62 >>

InitialBucket(visibility) ==
    LET fileName == CHOOSE n \in FileNames : TRUE
    IN  [ k \in { uploadFilePath(f, fileName) : f \in DOMAIN visibility } |->
            LET fileId == CHOOSE f \in DOMAIN visibility : uploadFilePath(f, fileName) = k
            IN  [ customMetadata |->
                    [ uploadMetadata(fileName, UploaderOf(fileId))
                        EXCEPT !.isPublic = visibility[fileId] ] ] ]

InitialBuckets ==
    UNION { { InitialBucket(v) : v \in [ D -> { "false", "true" } ] } : D \in SUBSET IdPool }

InitToggle ==
    /\ now = 0
    /\ bucket \in InitialBuckets
    /\ storageUp = TRUE
    /\ token = NoToken
    /\ accessReq = NoRequest
    /\ accessResp = NoResponse
    /\ toggles = [ s \in Slots |-> IdleToggle ]
    /\ call = NoCall
    /\ sessionUploads = << >>

TogglePublicStart(s, req) ==
    LET out == togglePublicCheck(req, Env, bucket, now, storageUp)
    IN  /\ Quiet
        /\ toggles[s].pc = "idle"
        /\ toggles' = [ toggles EXCEPT ![s] =
                          IF out.status = 0
                          THEN ToggleState("put", req, 0, out.fileKey, out.customMetadata, FALSE)
                          ELSE ToggleState("done", req, out.status, << >>, NoMetadata, FALSE) ]
        /\ UNCHANGED << now, bucket, storageUp, token, accessReq, accessResp, call, sessionUploads >>

\* The put lands: the slots that read the same object and have not written
\* yet are now behind it.
TogglePublicFinish(s) ==
    /\ Quiet
    /\ toggles[s].pc = "put"
    /\ bucket' = togglePublicPut(bucket, toggles[s].fileKey, toggles[s].customMetadata,
                                 toggles[s].req.body.val, storageUp)
    /\ toggles' = [ t \in Slots |->
                      IF t = s
                      THEN [ toggles[s] EXCEPT !.pc = "done",
                                               !.status = togglePublicStatus(storageUp) ]
                      ELSE IF storageUp /\ toggles[t].pc = "put"
                                /\ toggles[t].fileKey = toggles[s].fileKey
                      THEN [ toggles[t] EXCEPT !.raced = TRUE ]
                      ELSE toggles[t] ]
    /\ UNCHANGED << now, storageUp, token, accessReq, accessResp, call, sessionUploads >>

ToggleRespond(s) ==
    /\ toggles[s].pc = "done"
    /\ toggles' = [ toggles EXCEPT ![s] = IdleToggle ]
    /\ UNCHANGED << now, bucket, storageUp, token, accessReq, accessResp, call, sessionUploads >>

NextToggle ==
    \/ Tick
    \/ StorageFlip
    \/ Quiet /\ \E s \in Slots, r \in ToggleRequests : TogglePublicStart(s, r)
    \/ \E s \in Slots : TogglePublicFinish(s)
    \/ \E s \in Slots : ToggleRespond(s)

SpecToggle == InitToggle /\ [][NextToggle]_vars

(***************************************************************************)
(* The toggles in flight together with GET /access requests: a request for *)
(* an object is answered between another request's read of it and its put. *)
(* The requests carry no token parameters and no credential or a valid one.*)
(***************************************************************************)
PlainAccessRequests ==
    { AccessRequest(<< AccessSeg, f >>, Null, Null, Null, c) :
        f \in IdPool,
        c \in { NoCredential } \cup { Credential(Env.JWT_SECRET, sub, << >>) : sub \in Users } }

NextOps ==
    \/ Tick
    \/ StorageFlip
    \/ Quiet /\ \E s \in Slots, r \in ToggleRequests : TogglePublicStart(s, r)
    \/ \E s \in Slots : TogglePublicFinish(s)
    \/ \E s \in Slots : ToggleRespond(s)
    \/ Quiet /\ \E r \in PlainAccessRequests : FileAccess(r)
    \/ AccessRespond

SpecOps == InitToggle /\ [][NextOps]_vars

(***************************************************************************)
(* authenticateJWT applied to every credential, at every time, with and    *)
(* without env.JWT_SECRET configured.  The exp claims include 0; the call  *)
(* records the time it was made at.                                        *)
(***************************************************************************)
AuthCredentials ==
    { NoCredential }
        \cup { [ present |-> TRUE, parts |-> p, key |-> k, sub |-> sub, exp |-> exp ] :
                 p \in { 2, 3 },
                 k \in { Env.JWT_SECRET, OtherKey },
                 sub \in Users \cup { Undefined },
                 exp \in { << >> } \cup { << n >> : n \in 0..(MaxCredExp + 1) } }

AuthEnvs == { Env, [ Env EXCEPT !.JWT_SECRET = Undefined ] }

CallAuthenticateJWT(cred, env) ==
    /\ call' = [ fn |-> "authenticateJWT", cred |-> cred, env |-> env, now |-> now,
                 out |-> authenticateJWT(cred, env, now) ]
    /\ UNCHANGED << now, bucket, storageUp, token, accessReq, accessResp, toggles, sessionUploads >>

NextAuth ==
    \/ Tick
    \/ \E c \in AuthCredentials, e \in AuthEnvs : CallAuthenticateJWT(c, e)

SpecAuth == Init /\ [][NextAuth]_vars

(***************************************************************************)
(* Delegated introspection: the three middlewares that ask the auth        *)
(* service about a token.  A reply is what fetch does: it throws (the      *)
(* service cannot be reached) or resolves to a response with a status and  *)
(* a body; the body is valid JSON or not, and of the JSON the middlewares  *)
(* read active, success, error and the subject id.  An absent code or      *)
(* error member of a result is the empty string.                           *)
(***************************************************************************)
IntrospectReply(thrown, status, json, active, success, error, sub) ==
    [ thrown |-> thrown, status |-> status, json |-> json, active |-> active,
      success |-> success, error |-> error, sub |-> sub ]

Unreachable == IntrospectReply(TRUE, 0, FALSE, FALSE, FALSE, "", Undefined)

ResponseOk(reply) == reply.status >= 200 /\ reply.status <= 299

AuthServiceError(code, message) ==
    [ success |-> FALSE, code |-> code, error |-> message, user |-> [ id |-> Undefined ] ]

AuthServiceUser(id) ==
    [ success |-> TRUE, code |-> "", error |-> "", user |-> [ id |-> id ] ]

\* authenticate of the auth-service middleware (POST /auth/introspect)
authenticateIntrospect(hasToken, reply) ==
    IF ~hasToken THEN AuthServiceError("AUTH_REQUIRED", "No token provided")
    ELSE IF reply.thrown
    THEN AuthServiceError("AUTH_SERVICE_UNAVAILABLE", "Authentication service unavailable")
    ELSE IF ~ResponseOk(reply)
    THEN AuthServiceError("AUTH_SERVICE_ERROR", "Authentication service error")
    ELSE IF ~reply.json
    THEN AuthServiceError("AUTH_SERVICE_UNAVAILABLE", "Authentication service unavailable")
    ELSE IF ~reply.active
    THEN AuthServiceError("INVALID_TOKEN",
                          IF reply.error # "" THEN reply.error ELSE "Token is not active")
    ELSE AuthServiceUser(reply.sub)

\* validateWithAuthService of tamyla-auth.js (POST /api/v1/auth/validate)
validateWithAuthService(urlConfigured, reply) ==
    IF ~urlConfigured
    THEN AuthServiceError("AUTH_CONFIG_ERROR", "Authentication service not configured")
    ELSE IF reply.thrown
    THEN AuthServiceError("AUTH_SERVICE_UNAVAILABLE", "Authentication service unavailable")
    ELSE IF ~ResponseOk(reply)
    THEN IF reply.status = 401
         THEN AuthServiceError("INVALID_SESSION", "Session expired or invalid")
         ELSE IF reply.status = 403
         THEN AuthServiceError("FORBIDDEN", "Access denied for this service")
         ELSE AuthServiceError("AUTH_SERVICE_ERROR", "Authentication service error")
    ELSE IF ~reply.json
    THEN AuthServiceError("AUTH_SERVICE_UNAVAILABLE", "Authentication service unavailable")
    ELSE IF ~reply.success
    THEN AuthServiceError("VALIDATION_FAILED",
                          IF reply.error # "" THEN reply.error ELSE "Session validation failed")
    ELSE IF Falsy(reply.sub)
    THEN AuthServiceError("INVALID_RESPONSE", "Invalid user data from auth service")
    ELSE AuthServiceUser(reply.sub)

\* introspectToken of auth.js (POST /auth/introspect): its results carry an
\* error message and no code.
introspectToken(reply) ==
    IF reply.thrown
    THEN AuthServiceError("", "Token validation service unavailable")
    ELSE IF ~ResponseOk(reply)
    THEN AuthServiceError("", "Token validation failed")
    ELSE IF ~reply.json
    THEN AuthServiceError("", "Token validation service unavailable")
    ELSE IF ~reply.active
    THEN AuthServiceError("", IF reply.error # "" THEN reply.error ELSE "Invalid token")
    ELSE AuthServiceUser(reply.sub)

IntrospectReplies ==
    { Unreachable }
        \cup { IntrospectReply(FALSE, st, FALSE, FALSE, FALSE, "", Undefined) :
                 st \in { 200, 401, 403, 500, 503 } }
        \cup { IntrospectReply(FALSE, 200, TRUE, a, ok, e, sub) :
                 a \in BOOLEAN, ok \in BOOLEAN, e \in { "", "Token revoked" },
                 sub \in { Undefined } \cup Users }

CallAuthenticateIntrospect(hasToken, reply) ==
    /\ call' = [ fn |-> "authenticateIntrospect", hasToken |-> hasToken, reply |-> reply,
                 out |-> authenticateIntrospect(hasToken, reply) ]
    /\ UNCHANGED << now, bucket, storageUp, token, accessReq, accessResp, toggles, sessionUploads >>

CallValidateWithAuthService(urlConfigured, reply) ==
    /\ call' = [ fn |-> "validateWithAuthService", urlConfigured |-> urlConfigured,
                 reply |-> reply, out |-> validateWithAuthService(urlConfigured, reply) ]
    /\ UNCHANGED << now, bucket, storageUp, token, accessReq, accessResp, toggles, sessionUploads >>

CallIntrospectToken(reply) ==
    /\ call' = [ fn |-> "introspectToken", reply |-> reply, out |-> introspectToken(reply) ]
    /\ UNCHANGED << now, bucket, storageUp, token, accessReq, accessResp, toggles, sessionUploads >>

NextIntrospect ==
    \/ \E h \in BOOLEAN, r \in IntrospectReplies : CallAuthenticateIntrospect(h, r)
    \/ \E u \in BOOLEAN, r \in IntrospectReplies : CallValidateWithAuthService(u, r)
    \/ \E r \in IntrospectReplies : CallIntrospectToken(r)

SpecIntrospect == Init /\ [][NextIntrospect]_vars

(***************************************************************************)
(* A party without the secret.  It sees one signed URL the service issued, *)
(* knows how signed URLs are made, and presents signed URLs of its own     *)
(* making to verifySignedUrl.  What it does with the signature it saw is   *)
(* base64 decoding: four characters give three bytes.                      *)
(***************************************************************************)
RECURSIVE Atob(_)
Atob(s) ==
    IF Len(s) < 2 THEN << >>
    ELSE IF Len(s) = 2
    THEN << s[1] * 4 + (s[2] \div 16) >>
    ELSE IF Len(s) = 3
    THEN << s[1] * 4 + (s[2] \div 16), (s[2] % 16) * 16 + (s[3] \div 4) >>
    ELSE << s[1] * 4 + (s[2] \div 16),
            (s[2] % 16) * 16 + (s[3] \div 4),
            (s[3] % 4) * 64 + s[4] >>
         \o Atob(SubSeq(s, 5, Len(s)))

\* The bytes that follow the payload in the decoded signature; << >> when
\* the decoded signature does not start with the payload (a character of
\* the signature was stripped).
RecoverSecret(tok) ==
    LET payload == TokenPayload(tok.fileId, tok.user, tok.expires)
        decoded == Atob(tok.signature)
    IN  IF StartsWith(decoded, payload)
        THEN SubSeq(decoded, Len(payload) + 1, Len(decoded))
        ELSE << >>

ForgeSignature(fileId, userId, expires, secret) ==
    StripB64(Btoa(TokenPayload(fileId, userId, expires) \o secret))

\* The service issues the one signed URL the party sees.
IssueSignedUrl(fileId, userId) ==
    /\ token = NoToken
    /\ token' = generateSignedUrl(fileId, userId, Env, now, TtlSeconds)
    /\ UNCHANGED << now, bucket, storageUp, accessReq, accessResp, toggles, call, sessionUploads >>

\* The party presents a signed URL for (fileId, userId, expires) signed with
\* what it recovered from the signature it saw.
PresentForged(fileId, userId, expires) ==
    LET secret == RecoverSecret(token)
        signature == ForgeSignature(fileId, userId, expires, secret)
    IN  /\ token # NoToken
        /\ call' = [ fn |-> "verifySignedUrl", seen |-> token, recovered |-> secret,
                     fileId |-> fileId, user |-> userId, expires |-> expires,
                     signature |-> signature, now |-> now,
                     out |-> verifySignedUrl(<< AccessSeg, fileId >>, signature, expires,
                                             userId, Env, now) ]
        /\ UNCHANGED << now, bucket, storageUp, token, accessReq, accessResp, toggles, sessionUploads >>

NextForge ==
    \/ Tick
    \/ \E f \in IdPool, u \in Users : IssueSignedUrl(f, u)
    \/ \E f \in IdPool, u \in UserParams, e \in ExpiresParams : PresentForged(f, u, e)

SpecForge == Init /\ [][NextForge]_vars

(***************************************************************************)
(* signature !== expectedSignature in verifySignedUrl, with the work it    *)
(* takes.  The language leaves the cost of !== on strings to the engine:   *)
(* an engine compares the lengths and then the characters, stopping at the *)
(* first mismatch ("earlyExit") or not ("fullScan").  steps is the number  *)
(* of characters compared.                                                 *)
(***************************************************************************)
Engines == { "earlyExit", "fullScan" }

FirstMismatch(a, b) ==
    IF \E i \in 1..Len(a) : a[i] # b[i]
    THEN CHOOSE i \in 1..Len(a) : a[i] # b[i] /\ \A j \in 1..(i - 1) : a[j] = b[j]
    ELSE Len(a)

StrictNotEqualSteps(a, b, engine) ==
    IF Len(a) # Len(b) THEN 0
    ELSE IF engine = "earlyExit" THEN FirstMismatch(a, b)
    ELSE Len(a)

\* The signature with its i-th character replaced by another of the alphabet.
Tamper(signature, i) == [ signature EXCEPT ![i] = (signature[i] + 1) % 62 ]

PresentedSignatures(expected) ==
    { expected, SubSeq(expected, 1, Len(expected) - 1) }
        \cup { Tamper(expected, i) : i \in 1..Len(expected) }

CompareSignature(fileId, userId, expires, engine) ==
    LET expectedSignature == SignPayload(TokenPayload(fileId, userId, expires), Env)
    IN  \E signature \in PresentedSignatures(expectedSignature) :
            /\ call' = [ fn |-> "signatureCompare", signature |-> signature,
                         expected |-> expectedSignature, engine |-> engine,
                         out |-> signature # expectedSignature,
                         steps |-> StrictNotEqualSteps(signature, expectedSignature, engine) ]
            /\ UNCHANGED << now, bucket, storageUp, token, accessReq, accessResp, toggles, sessionUploads >>

NextCompare ==
    \E f \in IdPool, u \in UserParams, e \in ExpiresParams, g \in Engines :
        CompareSignature(f, u, e, g)

SpecCompare == Init /\ [][NextCompare]_vars

(***************************************************************************)
(* checkFileOwnership applied to buckets of up to three objects, which is  *)
(* more than a page of the listing holds.                                  *)
(***************************************************************************)
ResolveIds == IdPool \cup { << 72 >> }

ResolveBuckets ==
    UNION { [ { uploadFilePath(f, n) : f \in D, n \in FileNames }
                -> { [ customMetadata |-> uploadMetadata(n, u) ] : n \in FileNames, u \in Users } ] :
              D \in SUBSET ResolveIds }

CallCheckFileOwnership(fileId, userId, b) ==
    /\ call' = [ fn |-> "checkFileOwnership", fileId |-> fileId, userId |-> userId,
                 bucket |-> b, out |-> checkFileOwnership(fileId, userId, Env, b, TRUE) ]
    /\ UNCHANGED << now, bucket, storageUp, token, accessReq, accessResp, toggles, sessionUploads >>

NextResolve ==
    \E f \in ResolveIds, u \in Users, b \in ResolveBuckets : CallCheckFileOwnership(f, u, b)

SpecResolve == Init /\ [][NextResolve]_vars

(***************************************************************************)
(* Uploads and reads of the upload session.  The session cache is a       *)
(* module-level Map of the worker instance, so it is empty again whenever  *)
(* a request is served by a fresh instance.                                *)
(***************************************************************************)
DataServiceReplies ==
    { DataServiceReply(TRUE, FALSE, FALSE), DataServiceReply(FALSE, FALSE, FALSE),
      DataServiceReply(FALSE, TRUE, FALSE), DataServiceStored }

\* The credentials of the upload requests: none, one for each subject a
\* validly signed token can carry, and one that expires.
SessionCredentials ==
    { NoCredential, Credential(Env.JWT_SECRET, << 117 >>, << 1 >>) }
        \cup { Credential(Env.JWT_SECRET, sub, << >>) : sub \in Users \cup { Undefined } }

HandleUpload(cred, hasFile, fileName, fileId, reply) ==
    LET out == handleUpload(cred, hasFile, fileName, fileId, reply, Env, now,
                            bucket, storageUp, token, sessionUploads)
    IN  /\ \A k \in DOMAIN bucket : ~StartsWith(KeyFileName(k), fileId \o << 46 >>)
        /\ bucket' = out.bucket
        /\ token' = out.token
        /\ sessionUploads' = out.sessionUploads
        /\ call' = [ fn |-> "handleUpload", cred |-> cred, fileId |-> fileId,
                     reply |-> reply, out |-> out.response ]
        /\ UNCHANGED << now, storageUp, accessReq, accessResp, toggles >>

HandleUploadSession(cred) ==
    /\ call' = [ fn |-> "handleUploadSession", cred |-> cred,
                 out |-> handleUploadSession(cred, Env, now, sessionUploads) ]
    /\ UNCHANGED << now, bucket, storageUp, token, accessReq, accessResp, toggles, sessionUploads >>

FreshInstance ==
    /\ sessionUploads # << >>
    /\ sessionUploads' = << >>
    /\ UNCHANGED << now, bucket, storageUp, token, accessReq, accessResp, toggles, call >>

NextUpload ==
    \/ Tick
    \/ StorageFlip
    \/ \E c \in SessionCredentials, h \in BOOLEAN, n \in FileNames, f \in IdPool,
          d \in DataServiceReplies : HandleUpload(c, h, n, f, d)
    \/ \E c \in SessionCredentials : HandleUploadSession(c)
    \/ FreshInstance

SpecUpload == Init /\ [][NextUpload]_vars

(***************************************************************************)
(* A signed URL issued and presented as issued.  generateSignedUrl writes  *)
(* the user id into the query string as it is, and verifySignedUrl reads   *)
(* it back with new URL(...).searchParams.get('user'): the query ends at   *)
(* '#', a parameter at '&', '+' is read as a blank and %XX as the byte XX. *)
(***************************************************************************)
HexValue(c) ==
    IF c \in 48..57 THEN c - 48
    ELSE IF c \in 65..70 THEN c - 55
    ELSE IF c \in 97..102 THEN c - 87
    ELSE -1

\* The text of s before the first of the codes in stops.
UpTo(s, stops) ==
    LET at == { i \in 1..Len(s) : s[i] \in stops }
    IN  IF at = {} THEN s
        ELSE SubSeq(s, 1, (CHOOSE i \in at : \A j \in at : i <= j) - 1)

RECURSIVE FormDecode(_)
FormDecode(s) ==
    IF s = << >> THEN << >>
    ELSE IF s[1] = 43 THEN << 32 >> \o FormDecode(Tail(s))
    ELSE IF s[1] = 37 /\ Len(s) >= 3 /\ HexValue(s[2]) >= 0 /\ HexValue(s[3]) >= 0
    THEN << HexValue(s[2]) * 16 + HexValue(s[3]) >> \o FormDecode(SubSeq(s, 4, Len(s)))
    ELSE << s[1] >> \o FormDecode(Tail(s))

\* searchParams.get(name) of a parameter written into the URL as raw; null
\* is what an absent parameter gives, and an empty one gives ''.
SearchParamsGet(raw) ==
    IF raw = Null THEN Null ELSE FormDecode(UpTo(UpTo(raw, { 35 }), { 38 }))

\* Subject ids: those of Users, an address with a '+' and a name with '&'.
RoundTripSubjects == Users \cup { << 97, 43, 98 >>, << 97, 38, 98 >> }

Ttls == 1..(TtlSeconds + 1)

IssueRoundTrip(fileId, userId, ttl) ==
    LET out == generateSignedUrl(fileId, userId, Env, now, ttl)
    IN  /\ token' = out
        /\ call' = [ fn |-> "generateSignedUrl", fileId |-> fileId, userId |-> userId,
                     ttl |-> ttl, now |-> now, out |-> out ]
        /\ UNCHANGED << now, bucket, storageUp, accessReq, accessResp, toggles, sessionUploads >>

\* The holder requests the URL it was given, character for character.  The
\* signature is letters and digits only ('+', '/' and '=' were stripped),
\* which the query string gives back as they are.
VerifyRoundTrip ==
    /\ token # NoToken
    /\ call' = [ fn |-> "verifySignedUrl", issued |-> token, now |-> now,
                 out |-> verifySignedUrl(<< AccessSeg, token.fileId >>,
                                         token.signature,
                                         SearchParamsGet(token.expires),
                                         SearchParamsGet(token.user), Env, now) ]
    /\ UNCHANGED << now, bucket, storageUp, token, accessReq, accessResp, toggles, sessionUploads >>

NextRoundTrip ==
    \/ Tick
    \/ \E f \in IdPool, u \in RoundTripSubjects, ttl \in Ttls : IssueRoundTrip(f, u, ttl)
    \/ VerifyRoundTrip

SpecRoundTrip == Init /\ [][NextRoundTrip]_vars

(***************************************************************************)
(* The two places that issue signed URLs: handleUpload, for the file it    *)
(* has just stored, and POST /generate-signed-url.                         *)
(***************************************************************************)
CallGenerateSignedUrlRoute(cred, fileId) ==
    LET out == generateSignedUrlRoute(cred, fileId, Env, bucket, now, storageUp, token)
    IN  /\ token' = out.token
        /\ call' = [ fn |-> "generateSignedUrlRoute", cred |-> cred, fileId |-> fileId,
                     now |-> now, up |-> storageUp, bucket |-> bucket, out |-> out ]
        /\ UNCHANGED << now, bucket, storageUp, accessReq, accessResp, toggles, sessionUploads >>

NextIssue ==
    \/ Tick
    \/ StorageFlip
    \/ \E c \in SessionCredentials, n \in FileNames, f \in IdPool :
          HandleUpload(c, TRUE, n, f, DataServiceStored)
    \/ \E c \in SessionCredentials, f \in IdPool \cup { Undefined } :
          CallGenerateSignedUrlRoute(c, f)

SpecIssue == Init /\ [][NextIssue]_vars

(***************************************************************************)
(* Requests on a bucket that also holds objects without an uploadedBy      *)
(* (customMetadata?.uploadedBy is undefined for them), made with the       *)
(* credentials of a user and with a verified credential without a subject. *)
(***************************************************************************)
OrphanBuckets ==
    UNION { [ { uploadFilePath(f, n) : f \in D, n \in FileNames }
                -> { [ customMetadata |-> [ uploadMetadata(n, u) EXCEPT !.isPublic = v ] ] :
                       n \in FileNames, u \in { Undefined, << 117 >> },
                       v \in { "false", "true" } } ] :
              D \in SUBSET IdPool }

InitOrphan ==
    /\ now = 0
    /\ bucket \in OrphanBuckets
    /\ storageUp = TRUE
    /\ token = NoToken
    /\ accessReq = NoRequest
    /\ accessResp = NoResponse
    /\ toggles = [ s \in Slots |-> IdleToggle ]
    /\ call = NoCall
    /\ sessionUploads = << >>

NextOrphan ==
    \/ Tick
    \/ Quiet /\ \E c \in SessionCredentials, f \in IdPool, b \in Bodies :
                   TogglePublic(ToggleRequest(c, f, b))
    \/ Quiet /\ \E c \in SessionCredentials, f \in IdPool :
                   FileAccess(AccessRequest(<< AccessSeg, f >>, Null, Null, Null, c))
    \/ AccessRespond

SpecOrphan == InitOrphan /\ [][NextOrphan]_vars

(***************************************************************************)
(* A worker deployed without AUTH_JWT_SECRET, with or without JWT_SECRET.  *)
(* The signed URLs presented to it are the ones it issues itself and ones  *)
(* with a signature that is not one.                                       *)
(***************************************************************************)
UnsetEnvs ==
    { [ Env EXCEPT !.AUTH_JWT_SECRET = Undefined ],
      [ Env EXCEPT !.AUTH_JWT_SECRET = Undefined, !.JWT_SECRET = Undefined ] }

AccessUnconfigured(env, fileId, userId, issuedAt, ownSignature) ==
    LET issued == generateSignedUrl(fileId, userId, env, issuedAt, TtlSeconds)
        req == AccessRequest(<< AccessSeg, fileId >>,
                             IF ownSignature THEN issued.signature ELSE GarbageSignature,
                             issued.expires, issued.user, NoCredential)
    IN  /\ call' = [ fn |-> "handleFileAccess", env |-> env, req |-> req, now |-> now,
                     verification |-> verifySignedUrl(req.path, req.signature, req.expires,
                                                      req.user, env, now),
                     out |-> handleFileAccess(req, env, bucket, now, storageUp) ]
        /\ UNCHANGED << now, bucket, storageUp, token, accessReq, accessResp, toggles, sessionUploads >>

NextUnconfigured ==
    \/ Tick
    \/ \E env \in UnsetEnvs, f \in IdPool, u \in Users, t \in { 0, now }, own \in BOOLEAN :
          AccessUnconfigured(env, f, u, t, own)

SpecUnconfigured == InitToggle /\ [][NextUnconfigured]_vars

(***************************************************************************)
(* The life of an uploaded object: uploads into an empty bucket, then      *)
(* visibility toggles and GET /access requests without token parameters,   *)
(* by the users and by requesters without a credential.                    *)
(***************************************************************************)
UserCredentials ==
    { NoCredential } \cup { Credential(Env.JWT_SECRET, sub, << >>) : sub \in Users }

NextFresh ==
    \/ StorageFlip
    \/ Quiet /\ \E c \in UserCredentials, n \in FileNames, f \in IdPool :
                   HandleUpload(c, TRUE, n, f, DataServiceStored)
    \/ Quiet /\ \E c \in UserCredentials, f \in IdPool, v \in BOOLEAN :
                   TogglePublicStart(1, ToggleRequest(c, f, JsonBody("object", "boolean", v)))
    \/ TogglePublicFinish(1)
    \/ ToggleRespond(1)
    \/ Quiet /\ \E c \in UserCredentials, f \in IdPool :
                   FileAccess(AccessRequest(<< AccessSeg, f >>, Null, Null, Null, c))
    \/ AccessRespond

SpecFresh == Init /\ [][NextFresh]_vars

(***************************************************************************)
(* The session cache called directly.  Each call carries the log of the    *)
(* additions made so far, oldest first, less those of a user whose list    *)
(* was cleared since.                                                      *)
(***************************************************************************)
SessionLog == IF call = NoCall THEN << >> ELSE call.log

CallAddUploadToSession(userId, fileId) ==
    /\ Len(SessionLog) < MaxAdds
    /\ sessionUploads' = addUploadToSession(sessionUploads, userId, [ id |-> fileId ])
    /\ call' = [ fn |-> "addUploadToSession", userId |-> userId, out |-> << >>,
                 log |-> Append(SessionLog, [ userId |-> userId, id |-> fileId ]) ]
    /\ UNCHANGED << now, bucket, storageUp, token, accessReq, accessResp, toggles >>

CallGetSessionUploads(userId) ==
    /\ call' = [ fn |-> "getSessionUploads", userId |-> userId,
                 out |-> getSessionUploads(sessionUploads, userId), log |-> SessionLog ]
    /\ UNCHANGED << now, bucket, storageUp, token, accessReq, accessResp, toggles, sessionUploads >>

CallClearSessionUploads(userId) ==
    /\ sessionUploads' = clearSessionUploads(sessionUploads, userId)
    /\ call' = [ fn |-> "clearSessionUploads", userId |-> userId, out |-> << >>,
                 log |-> SelectSeq(SessionLog, LAMBDA e : e.userId # userId) ]
    /\ UNCHANGED << now, bucket, storageUp, token, accessReq, accessResp, toggles >>

NextSession ==
    \/ \E u \in Users \cup { Undefined }, f \in ResolveIds : CallAddUploadToSession(u, f)
    \/ \E u \in Users \cup { Undefined } : CallGetSessionUploads(u)
    \/ \E u \in Users : CallClearSessionUploads(u)

SpecSession == Init /\ [][NextSession]_vars

(***************************************************************************)
(* The request answered in this step, in the words of the claims.          *)
(***************************************************************************)
Accessed == accessReq # NoRequest

TargetId == RouteFileId(accessReq.path)

\* The stored objects whose file name without its extension is id.
ObjectsOf(id) ==
    { k \in DOMAIN bucket :
        /\ StartsWith(KeyFileName(k), id \o << 46 >>)
        /\ \A i \in (Len(id) + 2)..Len(KeyFileName(k)) : KeyFileName(k)[i] # 46 }

TargetExists == TargetId # << >> /\ ObjectsOf(TargetId) # {}

TargetIsPublic == \E k \in ObjectsOf(TargetId) : bucket[k].customMetadata.isPublic = "true"

TargetOwner == bucket[CHOOSE k \in ObjectsOf(TargetId) : TRUE].customMetadata.uploadedBy

NoTokenParams ==
    accessReq.signature = Null /\ accessReq.expires = Null /\ accessReq.user = Null

\* The credential is a three-part token signed with the service's secret
\* whose expiry, if it has one, has not passed.
HasPrincipal ==
    /\ accessReq.cred.present
    /\ accessReq.cred.parts = 3
    /\ accessReq.cred.key = Env.JWT_SECRET
    /\ (accessReq.cred.exp = << >> \/ accessReq.cred.exp[1] >= now)

\* The request carries all three token parameters and its signature is the
\* one the service computes for the file id ending the path, the user
\* parameter and the expires parameter.
CorrectlySigned ==
    /\ ~Falsy(accessReq.signature) /\ ~Falsy(accessReq.expires) /\ ~Falsy(accessReq.user)
    /\ accessReq.signature =
           SignPayload(TokenPayload(LastPathPart(accessReq.path), accessReq.user,
                                    accessReq.expires), Env)

ExpiresAt == ParseInt(accessReq.expires)

\* C1: every request for a public object is granted as public, whatever its
\* credential and its token parameters.
C1_PublicAlwaysGranted ==
    (Accessed /\ storageUp /\ TargetExists /\ TargetIsPublic)
        => (accessResp.status = 200 /\ accessResp.reason = "public file")

\* C2: every request for a file id with no stored object is answered 404,
\* whatever its credential and its token parameters.
C2_MissingAlwaysNotFound ==
    (Accessed /\ TargetId # << >> /\ ObjectsOf(TargetId) = {})
        => accessResp.status = 404

\* C3: on an existing private object and without token parameters, the
\* owner is granted as owner (200), another verified principal is answered
\* 403 and a request without a principal 401.
C3_PrivateByCredential ==
    (Accessed /\ storageUp /\ TargetExists /\ ~TargetIsPublic /\ NoTokenParams)
        => IF ~HasPrincipal
           THEN accessResp.status = 401
           ELSE IF accessReq.cred.sub = TargetOwner
           THEN accessResp.status = 200 /\ accessResp.reason = "file owner"
                /\ accessResp.served \in ObjectsOf(TargetId)
           ELSE accessResp.status = 403

C3_Witness ==
    /\ Accessed /\ storageUp /\ TargetExists /\ ~TargetIsPublic /\ NoTokenParams
    /\ HasPrincipal
    /\ accessReq.cred.sub = TargetOwner

IsSignedRequest == ~Falsy(accessReq.signature) /\ ~Falsy(accessReq.expires)

\* A correctly signed, unexpired token for the file the request is routed
\* to, and no credential.
C4_Case ==
    /\ Accessed /\ storageUp /\ TargetExists
    /\ CorrectlySigned
    /\ LastPathPart(accessReq.path) = TargetId
    /\ ExpiresAt # << >> /\ ExpiresAt[1] > now
    /\ ~accessReq.cred.present

\* C4 as stated: such a request is granted as a capability grant, whether
\* the object is private or public.
C4_GrantedAsCapability ==
    C4_Case => (accessResp.status = 200 /\ accessResp.reason = "valid signed URL")

\* C4 as amended: such a request is granted (200) and the object streamed;
\* the grant is a capability grant when the object is private and a public
\* grant when it is public.
C4_TokenGranted ==
    C4_Case =>
        /\ accessResp.status = 200
        /\ accessResp.served \in ObjectsOf(TargetId)
        /\ accessResp.reason = IF TargetIsPublic THEN "public file" ELSE "valid signed URL"

C4_Witness == C4_Case /\ ~TargetIsPublic

\* C5: a token whose expiresAt is at or before the clock never yields a
\* capability grant, whether or not its signature is right.
C5_ExpiredTokenDenied ==
    (Accessed /\ IsSignedRequest /\ ExpiresAt # << >> /\ ExpiresAt[1] <= now)
        => ~(accessResp.status = 200 /\ accessResp.reason = "valid signed URL")

\* The request carries the signature of the token issued last, which has
\* not expired, and differs from that token in exactly one signed field.
TokenLive == token # NoToken /\ ParseInt(token.expires)[1] > now

OneFieldChanged ==
    /\ accessReq.signature = token.signature
    /\ ~Falsy(accessReq.expires) /\ ~Falsy(accessReq.user)
    /\ Cardinality({ i \in 1..3 :
                       << LastPathPart(accessReq.path), accessReq.user, accessReq.expires >>[i]
                           # << token.fileId, token.user, token.expires >>[i] }) = 1

\* C6: a verifying token with one signed field changed and the signature
\* kept does not verify, and a token issued for one file is never what
\* grants a request for another.
C6_TamperedTokenFails ==
    /\ (Accessed /\ TokenLive /\ OneFieldChanged)
           => ~verifySignedUrl(accessReq.path, accessReq.signature, accessReq.expires,
                               accessReq.user, Env, now).valid
    /\ (Accessed /\ TokenLive /\ accessReq.signature = token.signature
          /\ accessResp.reason = "valid signed URL")
           => TargetId = token.fileId

\* C7: the object is streamed only from a bucket that answers, only to a
\* request routed to it, and only if it is public, or the token parameters
\* verified, or the credential verifies as the owner's.
C7_NoErrorGrant ==
    (Accessed /\ accessResp.status = 200) =>
        /\ storageUp
        /\ TargetExists
        /\ accessResp.served \in ObjectsOf(TargetId)
        /\ \/ TargetIsPublic
           \/ /\ IsSignedRequest
              /\ verifySignedUrl(accessReq.path, accessReq.signature, accessReq.expires,
                                 accessReq.user, Env, now).valid
           \/ /\ ~IsSignedRequest
              /\ HasPrincipal
              /\ accessReq.cred.sub = TargetOwner

\* A credential that fails verification, on a private object.
C7_Witness ==
    /\ Accessed /\ storageUp /\ TargetExists /\ ~TargetIsPublic
    /\ accessReq.cred.present /\ ~HasPrincipal
    /\ ~IsSignedRequest
    /\ accessResp.status = 401

(***************************************************************************)
(* The PUT /access/{fileId}/public requests, in the words of the claims.   *)
(***************************************************************************)
\* The credential is a three-part token signed with the service's secret
\* whose expiry, if it has one, has not passed.
Verified(cred) ==
    /\ cred.present
    /\ cred.parts = 3
    /\ cred.key = Env.JWT_SECRET
    /\ (cred.exp = << >> \/ cred.exp[1] >= now)

OwnerOf(id) == bucket[CHOOSE k \in ObjectsOf(id) : TRUE].customMetadata.uploadedBy

\* An authenticated requester of an existing object that is not its owner.
NonOwner(req) ==
    /\ Verified(req.cred)
    /\ ObjectsOf(req.fileId) # {}
    /\ req.cred.sub # OwnerOf(req.fileId)

WellFormed(body) == body.json = "object" /\ body.type = "boolean"

VisibilityString(val) == IF val THEN "true" ELSE "false"

\* C8 as stated: every request by an authenticated requester that is not
\* the object's owner is answered 403.
C8_NonOwnerForbidden ==
    \A s \in Slots :
        (toggles[s].pc = "done" /\ storageUp /\ NonOwner(toggles[s].req))
            => toggles[s].status = 403

\* C8 as amended: a request by an authenticated requester that is not the
\* object's owner never succeeds and leaves the bucket as it was, and is
\* answered 403 when its body is well formed and the bucket answers; the
\* visibility of an object changes only in the put of a request made with
\* its owner's credential.
C8_OwnerOnly ==
    [][ /\ \A s \in Slots :
             (toggles[s].pc # "done" /\ toggles'[s].pc = "done" /\ NonOwner(toggles'[s].req))
                 => /\ bucket' = bucket
                    /\ toggles'[s].status \notin { 0, 200 }
                    /\ (WellFormed(toggles'[s].req.body) /\ storageUp)
                           => toggles'[s].status = 403
        /\ \A k \in DOMAIN bucket :
             bucket'[k].customMetadata.isPublic # bucket[k].customMetadata.isPublic
                 => \E s \in Slots :
                        /\ toggles[s].pc = "put" /\ toggles'[s].pc = "done"
                        /\ toggles[s].fileKey = k
                        /\ toggles[s].req.cred.sub = bucket[k].customMetadata.uploadedBy
      ]_vars

\* A non-owner's well-formed request answered while the owner's request
\* for the same object waits for its put.
C8_Witness ==
    \E s, t \in Slots :
        /\ toggles[s].pc = "done" /\ storageUp
        /\ NonOwner(toggles[s].req)
        /\ WellFormed(toggles[s].req.body)
        /\ toggles[s].status = 403
        /\ toggles[t].pc = "put"
        /\ toggles[t].req.fileId = toggles[s].req.fileId

\* C9: an authenticated request is answered 400 when its body is malformed,
\* else 404 when the object is missing, else 403 when the requester is not
\* the owner, else 200.
C9_StatusContract ==
    \A s \in Slots :
        (toggles[s].pc = "done" /\ storageUp /\ Verified(toggles[s].req.cred))
            => toggles[s].status =
                   IF ~WellFormed(toggles[s].req.body) THEN 400
                   ELSE IF ObjectsOf(toggles[s].req.fileId) = {} THEN 404
                   ELSE IF toggles[s].req.cred.sub # OwnerOf(toggles[s].req.fileId) THEN 403
                   ELSE 200

\* C10: a request that passed the ownership check succeeds when its put
\* lands, whatever was written since it read the object, and the object's
\* visibility is then the value this request asked for.
C10_LastWriterWins ==
    \A s \in Slots :
        (toggles[s].pc = "done" /\ toggles[s].fileKey # << >> /\ storageUp)
            => /\ toggles[s].status = 200
               /\ bucket[toggles[s].fileKey].customMetadata.isPublic
                      = VisibilityString(toggles[s].req.body.val)

\* The put of a request lands after another request's put of the opposite
\* value, made between this request's read and its put.
C10_Witness ==
    \E s \in Slots :
        /\ toggles[s].pc = "done"
        /\ toggles[s].status = 200
        /\ toggles[s].raced
        /\ toggles[s].customMetadata.isPublic = VisibilityString(toggles[s].req.body.val)

\* C11: no step of an access or of a visibility toggle removes an object,
\* moves it to another key or changes its owner, original name or content
\* type.
C11_ObjectsStable ==
    [][ \A k \in DOMAIN bucket :
          /\ k \in DOMAIN bucket'
          /\ bucket'[k].customMetadata.uploadedBy = bucket[k].customMetadata.uploadedBy
          /\ bucket'[k].customMetadata.originalName = bucket[k].customMetadata.originalName
          /\ bucket'[k].customMetadata.contentType = bucket[k].customMetadata.contentType
      ]_vars

\* A put has landed that changed the visibility its request had read, after
\* another request's put on the same object.
C11_Witness ==
    \E s \in Slots :
        /\ toggles[s].pc = "done"
        /\ toggles[s].status = 200
        /\ toggles[s].raced
        /\ toggles[s].customMetadata.isPublic # bucket[toggles[s].fileKey].customMetadata.isPublic

\* The request is the signed URL issued last, as issued, before its expiry.
HeldTokenPresented ==
    /\ Accessed
    /\ token # NoToken
    /\ accessReq.path = << AccessSeg, token.fileId >>
    /\ accessReq.signature = token.signature
    /\ accessReq.expires = token.expires
    /\ accessReq.user = token.user
    /\ ParseInt(token.expires)[1] > now

\* C12: a request presenting an issued token for its file before the
\* token's expiry is granted, in every state the service reaches: after any
\* earlier uses of the token and any visibility toggles of the file.
C12_TokenReusable ==
    (HeldTokenPresented /\ storageUp)
        => (accessResp.status = 200 /\ accessResp.served \in ObjectsOf(token.fileId))

\* The token is presented with a credential of a user that does not own the
\* file, after the clock has advanced.
C12_Witness ==
    /\ HeldTokenPresented /\ storageUp
    /\ now > 0
    /\ ~TargetIsPublic
    /\ accessReq.cred.present
    /\ accessReq.cred.sub # TargetOwner

\* The exp claim of the credential had passed at the time of the call.
ExpiryPassed(cred) == cred.exp # << >> /\ cred.exp[1] < call.now

\* C13: with the secret configured, authenticateJWT returns a principal
\* exactly when the credential has three parts, its signature was made with
\* the secret, and its expiry has not passed; otherwise it returns an error.
C13_PrincipalIffVerified ==
    (call.fn = "authenticateJWT" /\ ~Falsy(call.env.JWT_SECRET))
        => (call.out.success
              <=> /\ call.cred.present
                  /\ call.cred.parts = 3
                  /\ call.cred.key = call.env.JWT_SECRET
                  /\ ~ExpiryPassed(call.cred))

\* The auth service answered and its answer rejects the token: active is
\* false for /auth/introspect, success is false for /api/v1/auth/validate.
Rejected(reply) == ~reply.thrown /\ ResponseOk(reply) /\ reply.json /\ ~reply.active

RejectedSession(reply) ==
    ~reply.thrown /\ ResponseOk(reply) /\ reply.json /\ ~reply.success

\* C14: in each introspecting middleware a rejecting answer and an
\* unreachable auth service both yield an error, and the code of the error
\* for the rejecting answer differs from the code for the unreachable
\* service.
C14_RejectedVersusUnreachable ==
    /\ (call.fn = "authenticateIntrospect" /\ call.hasToken)
          => /\ (Rejected(call.reply) \/ call.reply.thrown) => ~call.out.success
             /\ Rejected(call.reply)
                    => call.out.code # authenticateIntrospect(TRUE, Unreachable).code
    /\ (call.fn = "validateWithAuthService" /\ call.urlConfigured)
          => /\ (RejectedSession(call.reply) \/ call.reply.thrown) => ~call.out.success
             /\ RejectedSession(call.reply)
                    => call.out.code # validateWithAuthService(TRUE, Unreachable).code
    /\ call.fn = "introspectToken"
          => /\ (Rejected(call.reply) \/ call.reply.thrown) => ~call.out.success
             /\ Rejected(call.reply) => call.out.code # introspectToken(Unreachable).code

\* C15: while the bucket's calls throw, neither GET /access/{fileId} nor
\* PUT /access/{fileId}/public is answered 404, the answer for a missing
\* object.
C15_UnavailableNotNotFound ==
    /\ (Accessed /\ ~storageUp /\ TargetId # << >>) => accessResp.status # 404
    /\ \A s \in Slots :
         (toggles[s].pc = "done" /\ ~storageUp) => toggles[s].status # 404

\* C16: a party that has seen an issued signed URL does not learn the
\* secret from it, and verifySignedUrl accepts from that party only the
\* (fileId, user, expires, signature) that was issued.
C16_Unforgeable ==
    call.fn = "verifySignedUrl"
        => /\ call.recovered # Env.AUTH_JWT_SECRET
           /\ call.out.valid
                  => /\ call.fileId = call.seen.fileId
                     /\ call.user = call.seen.user
                     /\ call.expires = call.seen.expires
                     /\ call.signature = call.seen.signature

\* C17: comparing a presented signature of the expected length takes the
\* same number of character comparisons wherever the first mismatch is.
C17_ConstantTime ==
    (call.fn = "signatureCompare" /\ Len(call.signature) = Len(call.expected))
        => call.steps = Len(call.expected)

\* The keys of b whose file name without its extension is id.
Named(b, id) ==
    { k \in DOMAIN b :
        /\ StartsWith(KeyFileName(k), id \o << 46 >>)
        /\ \A i \in (Len(id) + 2)..Len(KeyFileName(k)) : KeyFileName(k)[i] # 46 }

\* C18: checkFileOwnership finds an object for fileId exactly when the
\* bucket holds one whose file name without its extension is fileId, and
\* what it returns is that object's key and owner, wherever the object is
\* in the listing.
C18_ResolvesIffStored ==
    call.fn = "checkFileOwnership"
        => /\ call.out.exists <=> Named(call.bucket, call.fileId) # {}
           /\ call.out.exists
                  => /\ call.out.fileKey \in Named(call.bucket, call.fileId)
                     /\ call.out.owner = call.bucket[call.out.fileKey].customMetadata.uploadedBy
                     /\ call.out.owned <=> (call.out.owner = call.userId)

\* C19: a read of the upload session that follows a successful upload and
\* is authenticated with the uploader's credential answers success with a
\* list that holds the uploaded file.
C19_UploadInSession ==
    [][ ( /\ call.fn = "handleUpload"
          /\ call.out.status = 200
          /\ call'.fn = "handleUploadSession"
          /\ call'.cred = call.cred
          /\ call'.out.status = 200 )
        => /\ call'.out.success
           /\ \E i \in 1..Len(call'.out.uploads) : call'.out.uploads[i].id = call.fileId ]_vars

\* C20: a 200 response of handleUpload carries the file's id and a metadata
\* record with an id, whatever the data service answered.
C20_MetadataPersisted ==
    (call.fn = "handleUpload" /\ call.out.status = 200)
        => /\ call.out.file.id = call.fileId
           /\ call.out.metadata.id # Undefined

\* C21: on an existing private object, a request with the owner's verified
\* credential and token parameters that fail verification is granted as
\* the owner's.
C21_OwnerDespiteFailedToken ==
    ( /\ Accessed /\ storageUp /\ TargetExists /\ ~TargetIsPublic
      /\ HasPrincipal /\ accessReq.cred.sub = TargetOwner
      /\ IsSignedRequest
      /\ ~verifySignedUrl(accessReq.path, accessReq.signature, accessReq.expires,
                          accessReq.user, Env, now).valid )
        => (accessResp.status = 200 /\ accessResp.reason = "file owner")

\* C22: a result of authenticateJWT is an error or a success whose user has
\* a defined id; a credential without a subject never yields success.
C22_SuccessHasSubject ==
    call.fn = "authenticateJWT"
        => /\ call.out.success => call.out.user.id # Undefined
           /\ call.cred.sub = Undefined => ~call.out.success

\* C23: a token issued at time t with a positive ttl has expiresAt = t + ttl,
\* and presented as issued at any time before expiresAt it verifies with
\* the file id and the subject id it was issued for.
C23_RoundTrip ==
    /\ call.fn = "generateSignedUrl"
           => ParseInt(call.out.expires) = << call.now + call.ttl >>
    /\ (call.fn = "verifySignedUrl" /\ call.now < ParseInt(call.issued.expires)[1])
           => /\ call.out.valid
              /\ call.out.fileId = call.issued.fileId
              /\ call.out.userId = call.issued.user

VerifiedAt(cred, t) ==
    /\ cred.present
    /\ cred.parts = 3
    /\ cred.key = Env.JWT_SECRET
    /\ (cred.exp = << >> \/ cred.exp[1] >= t)

\* The owners of the objects of b stored for id.
OwnersIn(b, id) == { b[k].customMetadata.uploadedBy : k \in Named(b, id) }

C26_UndefinedNeverOwner ==
    [][ /\ \A k \in DOMAIN bucket :
              bucket[k].customMetadata.uploadedBy = Undefined
                  => /\ k \in DOMAIN bucket'
                     /\ bucket'[k].customMetadata.isPublic = bucket[k].customMetadata.isPublic
        /\ ( /\ accessReq = NoRequest /\ accessReq' # NoRequest
             /\ VerifiedAt(accessReq'.cred, now)
             /\ accessReq'.cred.sub = Undefined
             /\ \E k \in ObjectsOf(RouteFileId(accessReq'.path)) :
                   /\ bucket[k].customMetadata.uploadedBy = Undefined
                   /\ bucket[k].customMetadata.isPublic # "true" )
               => accessResp'.status \in { 401, 403 } ]_vars

\* C27: without AUTH_JWT_SECRET no signed URL verifies and no request is
\* granted as a valid signed URL, with or without JWT_SECRET.
C27_NoSecretNoToken ==
    (call.fn = "handleFileAccess" /\ Falsy(call.env.AUTH_JWT_SECRET))
        => /\ ~call.verification.valid
           /\ ~(call.out.status = 200 /\ call.out.reason = "valid signed URL")

\* C28: a toggle answered 200 has left the object with the visibility it
\* asked for, the visibility of an object changes only in such a step, and
\* a GET /access without token parameters is answered by the visibility
\* the object has then: a public object is granted as public, a private
\* one is refused with 401 to a request without a principal and with 403
\* to a principal that is not its owner.
C28_VisibilityObserved ==
    [][ /\ \A s \in Slots :
             (toggles[s].pc # "done" /\ toggles'[s].pc = "done" /\ toggles'[s].status = 200)
                 => bucket'[toggles'[s].fileKey].customMetadata.isPublic
                        = VisibilityString(toggles'[s].req.body.val)
        /\ \A k \in DOMAIN bucket :
             bucket'[k].customMetadata.isPublic # bucket[k].customMetadata.isPublic
                 => \E s \in Slots :
                        /\ toggles[s].pc = "put" /\ toggles'[s].pc = "done"
                        /\ toggles'[s].status = 200
                        /\ toggles[s].fileKey = k
        /\ ( /\ accessReq = NoRequest /\ accessReq' # NoRequest /\ storageUp
             /\ ObjectsOf(RouteFileId(accessReq'.path)) # {} )
               => LET k == CHOOSE k \in ObjectsOf(RouteFileId(accessReq'.path)) : TRUE
                      meta == bucket[k].customMetadata
                  IN  IF meta.isPublic = "true"
                      THEN accessResp'.status = 200 /\ accessResp'.reason = "public file"
                      ELSE IF ~VerifiedAt(accessReq'.cred, now)
                      THEN accessResp'.status = 401
                      ELSE accessReq'.cred.sub # meta.uploadedBy => accessResp'.status = 403
      ]_vars

\* An object is granted as public that was private when a request still
\* waiting for its put read it: a toggle completed in between.
C28_Witness ==
    /\ Accessed
    /\ accessResp.status = 200 /\ accessResp.reason = "public file"
    /\ \E s \in Slots :
          /\ toggles[s].pc = "put"
          /\ toggles[s].raced
          /\ toggles[s].fileKey = accessResp.served
          /\ toggles[s].customMetadata.isPublic = "false"

\* C29: a successful upload stores a new object that is private and whose
\* uploadedBy is the uploader; an object stops being private only when a
\* put of a toggle to public made with its owner's credential lands; and
\* while it is private a GET /access without token parameters is answered
\* 401 without a principal and 403 to a principal that is not its owner.
C29_UploadedPrivate ==
    [][ /\ (call' # call /\ call'.fn = "handleUpload" /\ call'.out.status = 200)
               => \E k \in Named(bucket', call'.fileId) :
                     /\ k \notin DOMAIN bucket
                     /\ bucket'[k].customMetadata.uploadedBy = call'.cred.sub
                     /\ bucket'[k].customMetadata.isPublic = "false"
        /\ \A k \in DOMAIN bucket' :
             ( /\ bucket'[k].customMetadata.isPublic # "false"
               /\ (k \in DOMAIN bucket => bucket[k].customMetadata.isPublic = "false") )
                 => \E s \in Slots :
                        /\ k \in DOMAIN bucket
                        /\ toggles[s].pc = "put" /\ toggles'[s].pc = "done"
                        /\ toggles'[s].status = 200
                        /\ toggles[s].fileKey = k
                        /\ toggles[s].req.body.val
                        /\ toggles[s].req.cred.sub = bucket[k].customMetadata.uploadedBy
        /\ ( /\ accessReq = NoRequest /\ accessReq' # NoRequest /\ storageUp
             /\ \E k \in ObjectsOf(RouteFileId(accessReq'.path)) :
                   bucket[k].customMetadata.isPublic = "false" )
               => LET k == CHOOSE k \in ObjectsOf(RouteFileId(accessReq'.path)) : TRUE
                  IN  IF ~VerifiedAt(accessReq'.cred, now)
                      THEN accessResp'.status = 401
                      ELSE accessReq'.cred.sub # bucket[k].customMetadata.uploadedBy
                               => accessResp'.status = 403
      ]_vars

\* Another user is refused the file uploaded last while its uploader's
\* toggle to public waits for its put.
C29_Witness ==
    /\ Accessed
    /\ call.fn = "handleUpload" /\ call.out.status = 200
    /\ TargetId = call.fileId
    /\ accessReq.cred.present /\ accessReq.cred.sub # call.cred.sub
    /\ accessResp.status = 403
    /\ toggles[1].pc = "put" /\ toggles[1].req.body.val
    /\ toggles[1].req.fileId = call.fileId

\* The ids added for user u in log, newest first.
RECURSIVE AddedFor(_, _)
AddedFor(log, u) ==
    IF log = << >> THEN << >>
    ELSE LET rest == AddedFor(SubSeq(log, 1, Len(log) - 1), u)
             last == log[Len(log)]
         IN  IF last.userId = u THEN << [ id |-> last.id ] >> \o rest ELSE rest

\* The first n entries of s.
FirstOf(s, n) == SubSeq(s, 1, IF Len(s) < n THEN Len(s) ELSE n)

\* C30: after any calls of addUploadToSession, getSessionUploads and
\* clearSessionUploads, a user's list is the entries added for that user
\* since the list was last cleared, newest first and cut to the cap by
\* dropping the oldest, and getSessionUploads returns that list.
C30_CacheBoundedPerUser ==
    /\ DOMAIN sessionUploads \subseteq Users
    /\ \A u \in Users \cup { Undefined } :
          /\ Len(getSessionUploads(sessionUploads, u)) <= SessionCap
          /\ call # NoCall
                 => getSessionUploads(sessionUploads, u)
                        = IF u = Undefined THEN << >>
                          ELSE FirstOf(AddedFor(call.log, u), SessionCap)
    /\ call.fn = "getSessionUploads"
           => call.out = getSessionUploads(sessionUploads, call.userId)

\* A user's list is at the cap after more additions than the cap, and has
\* been read.
C30_Witness ==
    /\ call.fn = "getSessionUploads"
    /\ call.userId \in Users
    /\ Len(AddedFor(call.log, call.userId)) > SessionCap
    /\ Len(call.out) = SessionCap

====
